---- MODULE Spec2Model ----
(***************************************************************************)
(* Model of the game session of chess_ai_agent.py: the module-level state  *)
(* (board, move_history, history_pointer, selection, deliberation timer,   *)
(* engine handle) and the handlers of the main loop (the AI check at the   *)
(* top of every frame, the four keys, the mouse click).                    *)
(*                                                                         *)
(* python-chess is an external rules library.  It is modelled by a small   *)
(* abstract game with the same interface: a board is its move stack, the   *)
(* side to move alternates with every push, legality and game-over are     *)
(* deterministic functions of the board, and a board that is not over has  *)
(* at least one legal move.                                                *)
(***************************************************************************)
EXTENDS Integers, Sequences, FiniteSets, TLC

\* ---------------------------------------------------------------- bounds
\* The abstract game is drawn once the board holds MaxPly moves.
MaxPly == 4
\* Cap on len(move_history); the list itself is unbounded in the program.
MaxHist == 6
\* Number of clock ticks that make up the one-second wait of line 212.
DelayTicks == 2
\* Longest line typed at the difficulty prompt, in characters.
MaxInputLen == 3

\* ------------------------------------------------------------- constants
None == "None"
NoTime == -1
WHITE == "white"
BLACK == "black"
PAWN == "pawn"
KNIGHT == "knight"
ROOK == "rook"
QUEEN == "queen"
NoPromo == "-"
human_color == WHITE

\* Squares of the abstract board that can be clicked.
Squares == {"s1", "s2", "s3"}

\* chess.Move(from_square, to_square, promotion=None)
Move(from, to, promo) == <<from, to, promo>>
from_square(mv) == mv[1]

W1 == Move("s1", "s3", NoPromo)
W2 == Move("s2", "s3", NoPromo)
W2Q == Move("s2", "s3", QUEEN)
B1 == Move("s3", "s1", NoPromo)
B2 == Move("s3", "s2", NoPromo)

\* ------------------------------------------------------- position oracle
\* chess.Board(): the starting position, an empty move stack.
NewBoard == <<>>

\* board.push(move): python-chess applies the move without checking it.
Push(b, mv) == Append(b, mv)

\* board.peek() when there is a move, the empty tuple otherwise
LastOf(b) == IF Len(b) = 0 THEN <<>> ELSE b[Len(b)]

\* board.turn: White starts, the turn flips on every push.
Turn(b) == IF Len(b) % 2 = 0 THEN WHITE ELSE BLACK

\* board.is_game_over(): White's promotion W2Q mates; MaxPly moves draw.
IsGameOver(b) == Len(b) >= MaxPly \/ LastOf(b) = W2Q

\* board.piece_at(sq): s1 and s2 hold White's knight and pawn, s3 Black's rook.
PieceAt(b, sq) ==
    CASE sq = "s1" -> [color |-> WHITE, piece_type |-> KNIGHT]
      [] sq = "s2" -> [color |-> WHITE, piece_type |-> PAWN]
      [] OTHER -> [color |-> BLACK, piece_type |-> ROOK]

\* board.legal_moves: depends on the side to move and on the last move.
LegalMoves(b) ==
    IF IsGameOver(b) THEN {}
    ELSE IF Turn(b) = WHITE
         THEN CASE LastOf(b) = B1 -> {W1, W2Q}
                [] LastOf(b) = B2 -> {W2}
                [] OTHER -> {W1, W2}
         ELSE CASE LastOf(b) = W1 -> {B1, B2}
                [] LastOf(b) = W2 -> {B1}
                [] OTHER -> {B2}

\* ------------------------------------------------------------------ state
VARIABLES
    board,                  \* chess.Board, as its move stack
    move_history,           \* list of moves of both players
    history_pointer,        \* how many moves are currently applied
    selected_square,        \* None or the selected square
    legal_moves_for_sel,    \* legal moves from the selected square
    last_player_move_time,  \* NoTime or the time of the last player move
    now,                    \* time.time(), in ticks
    ai_is_thinking,
    engine,                 \* None or the SimpleEngine handle
    engine_proc,            \* the external process: "none", "up" or "dead"
    movers,                 \* history: who appended each entry of move_history
    last_op,                \* history: the last handler that ran, and its outcome
    engine_failed,          \* history: launch failed or a request has raised
    consulted_after_failure, \* history: engine.play was called after a failure
    before_back,            \* history: <<pointer, board>> before the Back just pressed
    console_input,          \* the line typed at the difficulty prompt
    level,                  \* the difficulty, 0 before line 42
    time_per_move,          \* engine budget in 1/100 s, 0 before line 50
    setup_pc                \* how far the setup of lines 41-50 has run

vars == <<board, move_history, history_pointer, selected_square,
          legal_moves_for_sel, last_player_move_time, now, ai_is_thinking,
          engine, engine_proc, movers, last_op, engine_failed,
          consulted_after_failure, before_back, console_input, level,
          time_per_move, setup_pc>>

selection == <<selected_square, legal_moves_for_sel>>
timer == <<last_player_move_time, now>>
engine_state == <<engine, engine_proc, engine_failed, consulted_after_failure>>
setup == <<console_input, level, time_per_move, setup_pc>>

Min(a, b) == IF a <= b THEN a ELSE b
Max(a, b) == IF a >= b THEN a ELSE b

\* ------------------------------------------------------------------ setup
\* The characters a typed line is made of: a sign, some digits, a letter.
Digits == {"0", "1", "2", "9"}
InputChars == Digits \cup {"-", "x"}

\* The lines of at most MaxInputLen characters; <<>> is a bare Enter.
Inputs == UNION {[1..n -> InputChars] : n \in 0..MaxInputLen}

DigitValue(c) ==
    CASE c = "0" -> 0 [] c = "1" -> 1 [] c = "2" -> 2 [] OTHER -> 9

AllDigits(str) == Len(str) > 0 /\ \A i \in 1..Len(str) : str[i] \in Digits

\* int(str) succeeds: digits, with an optional sign in front.
IsInt(str) ==
    \/ AllDigits(str)
    \/ Len(str) > 1 /\ str[1] = "-" /\ AllDigits(Tail(str))

RECURSIVE DigitsValue(_)
DigitsValue(str) ==
    IF Len(str) = 0 THEN 0
    ELSE 10 * DigitsValue(SubSeq(str, 1, Len(str) - 1)) + DigitValue(str[Len(str)])

\* int(str) for a line that IsInt
IntOf(str) ==
    IF str[1] = "-" THEN 0 - DigitsValue(Tail(str)) ELSE DigitsValue(str)

\* Lines 41-44: int(input(...) or 5), and 5 when that raises.
ReadLevel(str) ==
    IF str = <<>> THEN 5 ELSE IF IsInt(str) THEN IntOf(str) ELSE 5

\* Variant of ClampLevel: min and max are swapped.
ClampLevelSwapped(d) == Min(1, Max(20, d))

\* Line 45: level = max(1, min(20, level))
ClampLevel(d) == Max(1, Min(20, d))

\* Line 50: max(0.05, 0.05 + level * 0.07), in hundredths of a second.
TimePerMove(d) == Max(5, 5 + d * 7)

\* The game variables as lines 49 and 70-78 set them, before the engine is
\* launched.
FreshGame ==
    /\ board = NewBoard
    /\ move_history = <<>>
    /\ history_pointer = 0
    /\ selected_square = None
    /\ legal_moves_for_sel = {}
    /\ last_player_move_time = NoTime
    /\ now = 0
    /\ ai_is_thinking = FALSE
    /\ movers = <<>>
    /\ last_op = "init"
    /\ before_back = <<>>

game == <<board, move_history, history_pointer, selection, timer,
          ai_is_thinking, engine_state, movers, last_op, before_back>>

\* Line 42: the prompt is answered and the answer converted.
AskLevel ==
    /\ setup_pc = "input"
    /\ level' = ReadLevel(console_input)
    /\ setup_pc' = "clamp"
    /\ UNCHANGED <<console_input, time_per_move, game>>

\* Line 45.
Clamp ==
    /\ setup_pc = "clamp"
    /\ level' = ClampLevel(level)
    /\ setup_pc' = "budget"
    /\ UNCHANGED <<console_input, time_per_move, game>>

\* Line 50.
Budget ==
    /\ setup_pc = "budget"
    /\ time_per_move' = TimePerMove(level)
    /\ setup_pc' = "done"
    /\ UNCHANGED <<console_input, level, game>>

\* The program start: some line is about to be typed at the prompt.
SetupInit ==
    /\ FreshGame
    /\ engine = None
    /\ engine_proc = "none"
    /\ engine_failed = FALSE
    /\ consulted_after_failure = FALSE
    /\ console_input \in Inputs
    /\ level = 0
    /\ time_per_move = 0
    /\ setup_pc = "input"

SetupNext == AskLevel \/ Clamp \/ Budget

\* The difficulty setup on its own, for every line that can be typed.
SetupSpec == SetupInit /\ [][SetupNext]_vars

\* Lines 49-78: the engine is launched or not; the game state is fresh.
\* The handlers never read level, so the game is explored for the setup
\* that a bare Enter at the prompt leaves.
Init ==
    /\ board = NewBoard
    /\ move_history = <<>>
    /\ history_pointer = 0
    /\ selected_square = None
    /\ legal_moves_for_sel = {}
    /\ last_player_move_time = NoTime
    /\ now = 0
    /\ ai_is_thinking = FALSE
    /\ engine \in {None, "SimpleEngine"}
    /\ engine_proc = (IF engine = None THEN "none" ELSE "up")
    /\ engine_failed = (engine = None)
    /\ consulted_after_failure = FALSE
    /\ movers = <<>>
    /\ last_op = "init"
    /\ before_back = <<>>
    /\ console_input = <<>>
    /\ level = ClampLevel(ReadLevel(console_input))
    /\ time_per_move = TimePerMove(level)
    /\ setup_pc = "done"

\* ---------------------------------------------------------------- helpers
RECURSIVE Replay(_)
\* board = chess.Board(); for mv in moves: board.push(mv)
Replay(moves) ==
    IF Len(moves) = 0 THEN NewBoard
    ELSE Push(Replay(SubSeq(moves, 1, Len(moves) - 1)), moves[Len(moves)])

\* hist[:ptr]: a Python slice stops at the end of the list.
Slice(hist, ptr) == SubSeq(hist, 1, Min(ptr, Len(hist)))

\* update_board_from_history(): the board of move_history[:history_pointer]
update_board_from_history(hist, ptr) == Replay(Slice(hist, ptr))

\* push_move_and_record(move), with the history variable movers
push_move_and_record(b, mv, who) ==
    /\ board' = Push(b, mv)
    /\ move_history' = Append(move_history, mv)
    /\ history_pointer' = Len(move_history) + 1
    /\ movers' = Append(movers, who)

\* ------------------------------------------------------------------ clock
\* Only time.time() - last_player_move_time is ever read (line 212), so the
\* clock is kept relative: it restarts at 0 when a player move is recorded
\* (and when the recorded time is cleared), runs while a time is recorded
\* and stops once the delay has elapsed.
TimePasses ==
    /\ last_player_move_time # NoTime
    /\ now - last_player_move_time < DelayTicks
    /\ now' = now + 1
    /\ UNCHANGED <<board, move_history, history_pointer, selection,
                   last_player_move_time, ai_is_thinking, engine_state,
                   movers, last_op, before_back, setup>>

\* ---------------------------------------------------------------- AI turn
\* The outcomes of engine.play for the handle and the process state.
EngineOutcomes ==
    IF engine = None THEN {"random"}
    ELSE IF engine_proc = "up" THEN {"move", "nomove", "error", "crash"}
    ELSE {"crash"}

\* Variant of ai_make_move: the except branch only reports the error.
ai_make_move_no_fallback(outcome, best) ==
    /\ ~IsGameOver(board)
    /\ best \in LegalMoves(board)
    /\ IF outcome \in {"error", "crash"}
       THEN UNCHANGED <<board, move_history, history_pointer, movers>>
       ELSE push_move_and_record(board, best, "ai")
    /\ ai_is_thinking' = FALSE
    /\ engine' = engine
    /\ engine_proc' = (IF outcome = "crash" THEN "dead" ELSE engine_proc)
    /\ engine_failed' = (engine_failed \/ outcome \in {"error", "crash"})
    /\ consulted_after_failure' =
         (consulted_after_failure \/ (engine # None /\ engine_failed))
    /\ last_op' = (IF outcome = "move" THEN "ai_engine" ELSE "ai_fallback")

\* ai_make_move(): every outcome ends by pushing a legal move of board.
ai_make_move(outcome, best) ==
    /\ ~IsGameOver(board)
    /\ best \in LegalMoves(board)
    /\ push_move_and_record(board, best, "ai")
    /\ ai_is_thinking' = FALSE
    /\ engine' = engine
    /\ engine_proc' = (IF outcome = "crash" THEN "dead" ELSE engine_proc)
    /\ engine_failed' = (engine_failed \/ outcome \in {"error", "crash"})
    /\ consulted_after_failure' =
         (consulted_after_failure \/ (engine # None /\ engine_failed))
    /\ last_op' = (IF outcome = "move" THEN "ai_engine" ELSE "ai_fallback")

\* Variant of AiDue: the one-second test is missing.
AiDueNoDelay(b, t, clock) ==
    /\ ~IsGameOver(b)
    /\ Turn(b) # human_color
    /\ t # NoTime
    /\ ~ai_is_thinking

\* Variant of AiDue: the test of the side to move is inverted.
AiDueWrongSide(b, t, clock) ==
    /\ ~IsGameOver(b)
    /\ Turn(b) = human_color
    /\ t # NoTime
    /\ clock - t >= DelayTicks
    /\ ~ai_is_thinking

\* Line 211-212: the condition under which the frame makes the AI move.
AiDue(b, t, clock) ==
    /\ ~IsGameOver(b)
    /\ Turn(b) # human_color
    /\ t # NoTime
    /\ clock - t >= DelayTicks
    /\ ~ai_is_thinking

\* Variant of AICheck: line 214 is missing, the move time stays recorded.
AICheckKeepTime ==
    /\ AiDue(board, last_player_move_time, now)
    /\ Len(move_history) < MaxHist
    /\ \E outcome \in EngineOutcomes, best \in LegalMoves(board) :
          ai_make_move(outcome, best)
    /\ before_back' = <<>>
    /\ UNCHANGED <<selection, timer, setup>>

\* Lines 210-214.
AICheck ==
    /\ AiDue(board, last_player_move_time, now)
    /\ Len(move_history) < MaxHist
    /\ \E outcome \in EngineOutcomes, best \in LegalMoves(board) :
          ai_make_move(outcome, best)
    /\ last_player_move_time' = NoTime
    /\ now' = 0
    /\ before_back' = <<>>
    /\ UNCHANGED <<selection, setup>>

\* ------------------------------------------------------------------- keys
\* Variant of KeyLeft: Back undoes the move, dropping the tail of the ledger.
KeyLeftUndo ==
    /\ IF history_pointer > 0
       THEN /\ history_pointer' = history_pointer - 1
            /\ move_history' = Slice(move_history, history_pointer - 1)
            /\ movers' = Slice(movers, history_pointer - 1)
            /\ board' = update_board_from_history(move_history, history_pointer - 1)
       ELSE UNCHANGED <<history_pointer, board, move_history, movers>>
    /\ last_op' = "left"
    /\ before_back' = (IF history_pointer > 0
                       THEN <<history_pointer, board>> ELSE <<>>)
    /\ UNCHANGED <<selection, timer, ai_is_thinking, engine_state, setup>>

\* Lines 222-225.
KeyLeft ==
    /\ IF history_pointer > 0
       THEN /\ history_pointer' = history_pointer - 1
            /\ board' = update_board_from_history(move_history, history_pointer - 1)
       ELSE UNCHANGED <<history_pointer, board>>
    /\ last_op' = "left"
    /\ before_back' = (IF history_pointer > 0
                       THEN <<history_pointer, board>> ELSE <<>>)
    /\ UNCHANGED <<move_history, selection, timer, ai_is_thinking,
                   engine_state, movers, setup>>

\* Variant of KeyRight: the bound of the step is off by one.
KeyRightOffByOne ==
    /\ IF history_pointer <= Len(move_history)
       THEN /\ history_pointer' = history_pointer + 1
            /\ board' = update_board_from_history(move_history, history_pointer + 1)
       ELSE UNCHANGED <<history_pointer, board>>
    /\ last_op' = "right"
    /\ before_back' = <<>>
    /\ UNCHANGED <<move_history, selection, timer, ai_is_thinking,
                   engine_state, movers, setup>>

\* Lines 226-229.
KeyRight ==
    /\ IF history_pointer < Len(move_history)
       THEN /\ history_pointer' = history_pointer + 1
            /\ board' = update_board_from_history(move_history, history_pointer + 1)
       ELSE UNCHANGED <<history_pointer, board>>
    /\ last_op' = "right"
    /\ before_back' = <<>>
    /\ UNCHANGED <<move_history, selection, timer, ai_is_thinking,
                   engine_state, movers, setup>>

\* Lines 230-232.
KeyDown ==
    /\ history_pointer' = Len(move_history)
    /\ board' = update_board_from_history(move_history, Len(move_history))
    /\ last_op' = "down"
    /\ before_back' = <<>>
    /\ UNCHANGED <<move_history, selection, timer, ai_is_thinking,
                   engine_state, movers, setup>>

\* Variant of KeyR: board.reset() is missing.
KeyRKeepBoard ==
    /\ move_history' = <<>>
    /\ history_pointer' = 0
    /\ selected_square' = None
    /\ legal_moves_for_sel' = {}
    /\ last_player_move_time' = NoTime
    /\ now' = 0
    /\ movers' = <<>>
    /\ last_op' = (IF last_player_move_time # NoTime THEN "reset_pending"
                   ELSE IF IsGameOver(board) THEN "reset_over"
                   ELSE "reset")
    /\ before_back' = <<>>
    /\ UNCHANGED <<board, ai_is_thinking, engine_state, setup>>

\* Variant of KeyR: only the ledger is cleared; the board and the time of
\* the last player move are left as they are.
KeyRLedgerOnly ==
    /\ move_history' = <<>>
    /\ history_pointer' = 0
    /\ selected_square' = None
    /\ legal_moves_for_sel' = {}
    /\ movers' = <<>>
    /\ last_op' = (IF last_player_move_time # NoTime THEN "reset_pending"
                   ELSE IF IsGameOver(board) THEN "reset_over"
                   ELSE "reset")
    /\ before_back' = <<>>
    /\ UNCHANGED <<board, timer, ai_is_thinking, engine_state, setup>>

\* Lines 233-241.
KeyR ==
    /\ board' = NewBoard
    /\ move_history' = <<>>
    /\ history_pointer' = 0
    /\ selected_square' = None
    /\ legal_moves_for_sel' = {}
    /\ last_player_move_time' = NoTime
    /\ now' = 0
    /\ movers' = <<>>
    /\ last_op' = (IF last_player_move_time # NoTime THEN "reset_pending"
                   ELSE IF IsGameOver(board) THEN "reset_over"
                   ELSE "reset")
    /\ before_back' = <<>>
    /\ UNCHANGED <<ai_is_thinking, engine_state, setup>>

\* ------------------------------------------------------------------ mouse
\* Lines 262-267: the click selects a piece of the human on the human's turn.
Select(b, clicked_sq) ==
    /\ IF PieceAt(b, clicked_sq).color = human_color /\ Turn(b) = human_color
       THEN /\ selected_square' = clicked_sq
            /\ legal_moves_for_sel' =
                 {mv \in LegalMoves(b) : from_square(mv) = clicked_sq}
            /\ last_op' = "select"
       ELSE /\ UNCHANGED selection
            /\ last_op' = "no_select"
    /\ UNCHANGED <<move_history, movers, timer>>

\* Lines 273-279: the move of the two clicks, promoted to a queen if needed.
AttemptedMove(b, clicked_sq) ==
    LET mv == Move(selected_square, clicked_sq, NoPromo)
        mvq == Move(selected_square, clicked_sq, QUEEN)
    IN  IF mv \notin LegalMoves(b)
           /\ PieceAt(b, selected_square).piece_type = PAWN
           /\ mvq \in LegalMoves(b)
        THEN mvq ELSE mv

\* Line 280: the attempt is played.
Accepted(b, mv) == mv \in LegalMoves(b) /\ Turn(b) = human_color

\* Variant of Attempt: line 284 runs after the if/else, for every attempt.
AttemptAlwaysTimed(b, mv, snapped) ==
    /\ IF Accepted(b, mv)
       THEN /\ Len(move_history) < MaxHist
            /\ push_move_and_record(b, mv, "human")
            /\ last_op' = (IF snapped THEN "move_snapped" ELSE "move")
       ELSE /\ board' = b
            /\ history_pointer' = Len(move_history)
            /\ UNCHANGED <<move_history, movers>>
            /\ last_op' = (IF snapped THEN "reject_snapped" ELSE "reject")
    /\ last_player_move_time' = 0
    /\ now' = 0
    /\ selected_square' = None
    /\ legal_moves_for_sel' = {}

\* Variant of Attempt: line 284 is missing, no move time is recorded.
AttemptNoTime(b, mv, snapped) ==
    /\ IF Accepted(b, mv)
       THEN /\ Len(move_history) < MaxHist
            /\ push_move_and_record(b, mv, "human")
            /\ UNCHANGED timer
            /\ last_op' = (IF snapped THEN "move_snapped" ELSE "move")
       ELSE /\ board' = b
            /\ history_pointer' = Len(move_history)
            /\ UNCHANGED <<move_history, movers, timer>>
            /\ last_op' = (IF snapped THEN "reject_snapped" ELSE "reject")
    /\ selected_square' = None
    /\ legal_moves_for_sel' = {}

\* Lines 280-289: play the move and start the wait, or only deselect.
Attempt(b, mv, snapped) ==
    /\ IF Accepted(b, mv)
       THEN /\ Len(move_history) < MaxHist
            /\ push_move_and_record(b, mv, "human")
            /\ last_player_move_time' = 0
            /\ now' = 0
            /\ last_op' = (IF snapped THEN "move_snapped" ELSE "move")
       ELSE /\ board' = b
            /\ history_pointer' = Len(move_history)
            /\ UNCHANGED <<move_history, movers, timer>>
            /\ last_op' = (IF snapped THEN "reject_snapped" ELSE "reject")
    /\ selected_square' = None
    /\ legal_moves_for_sel' = {}

\* Variant of SnapToLive: update_board_from_history() is not called.
SnapToLiveNoRebuild(hist, ptr, b) == b

\* Lines 248-251: a click in a historical view first jumps to live.
SnapToLive(hist, ptr, b) ==
    IF ptr # Len(hist) THEN update_board_from_history(hist, Len(hist)) ELSE b

\* Lines 243-289; below is a click under the board (line 246).
MouseButtonDown(below, clicked_sq) ==
    LET snapped == history_pointer # Len(move_history)
        b == SnapToLive(move_history, history_pointer, board)
    IN  /\ IF below
           THEN /\ UNCHANGED <<board, move_history, history_pointer, selection,
                               timer, movers>>
                /\ last_op' = "click_below"
           ELSE IF IsGameOver(b)
           THEN /\ board' = b
                /\ history_pointer' = Len(move_history)
                /\ UNCHANGED <<move_history, selection, timer, movers>>
                /\ last_op' = "click_over"
           ELSE IF selected_square = None
           THEN /\ board' = b
                /\ history_pointer' = Len(move_history)
                /\ Select(b, clicked_sq)
           ELSE Attempt(b, AttemptedMove(b, clicked_sq), snapped)
        /\ before_back' = <<>>
        /\ UNCHANGED <<ai_is_thinking, engine_state, setup>>

Click == \E below \in BOOLEAN, clicked_sq \in Squares :
            MouseButtonDown(below, clicked_sq)

\* ------------------------------------------------------------------- spec
Next ==
    \/ TimePasses
    \/ AICheck
    \/ KeyLeft
    \/ KeyRight
    \/ KeyDown
    \/ KeyR
    \/ Click

Spec == Init /\ [][Next]_vars

\* A session in which the user neither resets nor steps back from the live
\* view.  The loop of lines 206-214 runs every frame, so time keeps passing
\* and the AI check keeps being made.
LiveNext ==
    \/ TimePasses
    \/ AICheck
    \/ KeyRight
    \/ KeyDown
    \/ Click

LiveSpec ==
    Init /\ [][LiveNext]_vars /\ WF_vars(TimePasses) /\ WF_vars(AICheck)

\* ----------------------------------------------------------------- claims
\* The view is live: history_pointer == len(move_history).
IsLive == history_pointer = Len(move_history)

\* The position of the whole ledger, as the oracle replays it.
LiveBoard == Replay(move_history)

\* The position of the viewed prefix, as the oracle replays it.
PrefixBoard == Replay(Slice(move_history, history_pointer))

IsPrefix(s, t) == Len(s) <= Len(t) /\ SubSeq(t, 1, Len(s)) = s

\* This step appends one entry to the ledger, and who appends it.
AppendedBy(who) ==
    /\ Len(move_history') = Len(move_history) + 1
    /\ movers'[Len(movers')] = who

\* C1: an engine or fallback move is appended to the ledger only in a step
\* that starts with the view live (history_pointer == len(move_history)).
C1_EngineMoveOnlyWhenLive == [][AppendedBy("ai") => IsLive]_vars

\* C2: once the whole ledger is a finished game, no step other than the
\* reset changes move_history.
C2_TerminalAbsorbing ==
    [][IsGameOver(LiveBoard) => (move_history' = move_history \/ KeyR)]_vars

\* C3: between handlers the board equals the replay of
\* move_history[:history_pointer] from the starting position.
C3_BoardIsReplayOfPrefix == board = PrefixBoard

\* C4: 0 <= history_pointer <= len(move_history) in every reachable state.
C4_PointerInRange ==
    history_pointer >= 0 /\ history_pointer <= Len(move_history)

\* Back has been pressed down to the start of a ledger of several moves.
C4_Witness ==
    last_op = "left" /\ history_pointer = 0 /\ Len(move_history) >= 2

Navigate == KeyLeft \/ KeyRight \/ KeyDown

\* C5: a Back, Forward or Live step changes nothing but history_pointer and
\* the board (ledger, selection, timer and engine are as before), and every
\* step other than the reset leaves move_history an extension of itself.
C5_NavigationNonDestructive ==
    [][/\ Navigate => UNCHANGED <<move_history, movers, selection, timer,
                                  ai_is_thinking, engine_state>>
       /\ IsPrefix(move_history, move_history') \/ KeyR]_vars

\* A navigation key has left the view historical while the wait is pending.
C5_Witness ==
    /\ last_op \in {"left", "right", "down"}
    /\ last_player_move_time # NoTime
    /\ history_pointer < Len(move_history)

\* C6: a click in a historical view that changes the ledger appends one move
\* that is legal, on the human's turn, in the position of the whole ledger;
\* the old entries are all kept, the view becomes live and the board is the
\* live position with the move pushed.
C6_SnapThenAppend ==
    [][(Click /\ ~IsLive /\ move_history' # move_history) =>
         \E mv \in LegalMoves(LiveBoard) :
            /\ Turn(LiveBoard) = human_color
            /\ move_history' = Append(move_history, mv)
            /\ history_pointer' = Len(move_history')
            /\ board' = Push(LiveBoard, mv)]_vars

\* The human has played a move from a historical view.
C6_Witness == last_op = "move_snapped" /\ Len(move_history) >= 3

ResetOutcomes == {"reset", "reset_pending", "reset_over"}

\* C7: right after a reset the ledger is empty, history_pointer is 0, it is
\* the human's turn to move and the game is not over.
C7_ResetPostcondition ==
    last_op \in ResetOutcomes =>
        /\ Len(move_history) = 0
        /\ history_pointer = 0
        /\ Turn(board) = human_color
        /\ ~IsGameOver(board)
        /\ Turn(PrefixBoard) = human_color
        /\ ~IsGameOver(PrefixBoard)

\* The reset key has been pressed in a finished game.
C7_Witness == last_op = "reset_over" /\ history_pointer = 0

\* C8: while the ledger is empty no wait is pending, and the first move to
\* enter an empty ledger is a human move, so nothing started before a reset
\* puts a move into the ledger after it.
C8_ResetInvalidatesPending ==
    [][move_history = <<>> =>
         /\ last_player_move_time = NoTime
         /\ move_history' = <<>> \/ AppendedBy("human")]_vars

\* The reset key has been pressed while the wait for the AI move was pending.
C8_Witness == last_op = "reset_pending" /\ move_history = <<>>

\* The outcomes of a click that plays no move.
Rejections == {"reject", "reject_snapped", "click_over", "no_select"}

\* C9: a click that is rejected (game over, not the human's piece or turn,
\* or an illegal move) leaves the ledger and the timer as they were.
C9_RejectedAttemptNoMutation ==
    [][(Click /\ last_op' \in Rejections) =>
         UNCHANGED <<move_history, movers, timer>>]_vars

\* An illegal move has been attempted in a game with moves on the ledger.
C9_Witness ==
    last_op \in {"reject", "reject_snapped"} /\ Len(move_history) > 0

\* C10: once the engine has failed, engine.play is never called again.
C10_EngineNeverConsultedAfterFailure == ~consulted_after_failure

\* C11: Forward pressed right after a Back that moved the pointer returns
\* to the pointer and to the board of before the Back, with the ledger as
\* it was.
C11_BackForwardRoundTrip ==
    [][(before_back # <<>> /\ KeyRight) =>
         /\ history_pointer' = before_back[1]
         /\ board' = before_back[2]
         /\ move_history' = move_history]_vars

\* C11, for the position the ledger prefix gives instead of the board.
C11_RoundTripOfPrefix ==
    [][(before_back # <<>> /\ KeyRight) =>
         /\ history_pointer' = before_back[1]
         /\ board' = Replay(Slice(move_history, before_back[1]))
         /\ move_history' = move_history]_vars

\* The human has just appended move k and the game goes on.
HumanJustMoved(k) ==
    /\ Len(move_history) = k
    /\ last_op \in {"move", "move_snapped"}
    /\ IsLive
    /\ ~IsGameOver(board)

\* The ledger has grown by the one AI move and the wait is over: it is the
\* human's turn, or the game has ended.
EngineReplied(k) ==
    /\ Len(move_history) = k + 1
    /\ movers[k + 1] = "ai"
    /\ IsLive
    /\ last_player_move_time = NoTime
    /\ Turn(board) = human_color \/ IsGameOver(board)

\* C12: without reset and without stepping back, every human move that
\* does not end the game is eventually followed by exactly one AI move,
\* after which it is the human's turn or the game is over.
C12_EngineResponds ==
    \A k \in 1..MaxHist : HumanJustMoved(k) ~> EngineReplied(k)

\* The AI has replied in a live game and the human is to move again.
C12_Witness ==
    /\ last_op \in {"ai_engine", "ai_fallback"}
    /\ EngineReplied(1)
    /\ ~IsGameOver(board)

\* C13: once the setup has run, an integer answer d below 1 gives level 1,
\* above 20 gives level 20, from 1 to 20 gives d, and any other answer
\* gives 5; the budget in hundredths of a second is 5 + 7 * level, so 12
\* for level 1 and 145 for level 20, never below 5, and it grows with the
\* level.
C13_DifficultyAndBudget ==
    setup_pc = "done" =>
        LET d == IF IsInt(console_input) THEN IntOf(console_input) ELSE 5
        IN  /\ level \in 1..20
            /\ d < 1 => level = 1
            /\ d > 20 => level = 20
            /\ d \in 1..20 => level = d
            /\ time_per_move = 5 + 7 * level
            /\ time_per_move >= 5
            /\ level = 1 => time_per_move = 12
            /\ level = 20 => time_per_move = 145
            /\ \A e \in 1..19 : TimePerMove(e) < TimePerMove(e + 1)

\* A number above 20 has been typed and the setup has clamped it.
C13_Witness ==
    /\ setup_pc = "done"
    /\ IsInt(console_input)
    /\ IntOf(console_input) > 20
    /\ level = 20
    /\ time_per_move = 145

AiOutcomes == {"ai_engine", "ai_fallback"}

\* C14: a step that appends an AI move starts at least the delay after the
\* recorded time of the last human move, whatever was viewed meanwhile.
C14_DelayBeforeEngineMove ==
    [][AppendedBy("ai") =>
         /\ last_player_move_time # NoTime
         /\ now - last_player_move_time >= DelayTicks]_vars

\* The AI has moved although the user looked at the history during the wait:
\* its move was made in a historical view.
C14_Witness ==
    /\ last_op \in AiOutcomes
    /\ Len(move_history) >= 4
    /\ board # LiveBoard

\* C15: every AI turn appends exactly one move, a legal move of the board
\* the turn started on, whatever the engine did, and leaves ai_is_thinking
\* false.
C15_ExactlyOneMovePerTurn ==
    [][AICheck =>
         /\ \E mv \in LegalMoves(board) :
               /\ move_history' = Append(move_history, mv)
               /\ board' = Push(board, mv)
         /\ movers' = Append(movers, "ai")
         /\ ai_is_thinking' = FALSE]_vars

\* The engine has raised in an AI turn and a fallback move is on the ledger.
C15_Witness ==
    /\ last_op = "ai_fallback"
    /\ engine # None
    /\ engine_failed
    /\ movers[Len(movers)] = "ai"

\* C16: every entry of the ledger is a legal move of the position that the
\* entries before it replay to.
C16_LedgerIsLegalGame ==
    \A i \in 1..Len(move_history) :
        move_history[i] \in LegalMoves(Replay(SubSeq(move_history, 1, i - 1)))

\* C17: the entries of the ledger are appended by the human and the AI in
\* turn, the first one by the human.
C17_StrictAlternation ==
    \A i \in 1..Len(movers) :
        movers[i] = (IF i % 2 = 1 THEN "human" ELSE "ai")

\* After an AI move made in a historical view the human has moved again:
\* five entries, the fourth by the AI and the fifth by the human.
C17_Witness ==
    /\ Len(movers) = 5
    /\ last_op = "move"
    /\ movers[4] = "ai"
    /\ movers[5] = "human"
    /\ board # LiveBoard

\* C18: when the view is live and the position, on the board or replayed
\* from the ledger, is not over with the AI to move, a move time is
\* recorded, so the AI check will make the move.
C18_NoStuckState ==
    (/\ IsLive
     /\ \/ ~IsGameOver(board) /\ Turn(board) # human_color
        \/ ~IsGameOver(LiveBoard) /\ Turn(LiveBoard) # human_color)
    => last_player_move_time # NoTime

\* The user has come back to the live view while the AI move is awaited.
C18_Witness ==
    /\ last_op \in {"right", "down"}
    /\ IsLive
    /\ ~IsGameOver(board)
    /\ Turn(board) # human_color
    /\ last_player_move_time # NoTime

====
